---- MODULE Spec2Model ----
(***************************************************************************)
(* The engagement analysis engine of backend/services/engagementService.js *)
(* as a state machine.  A text is a TLA+ string whose elements are UTF-16  *)
(* code units, as in a JavaScript string.  Module strings are ASCII, so    *)
(* three ASCII characters stand for code units outside ASCII:              *)
(*   "*"  a BMP emoji (U+2728, in the range 2700-27BF),                    *)
(*   "{"  the high surrogate U+D83D,                                       *)
(*   "}"  the low surrogate U+DC47; "{}" is U+1F447 (in 1F300-1F6FF).      *)
(* None of the three is a word character, whitespace or a letter, as the   *)
(* code units they stand for.                                              *)
(***************************************************************************)
EXTENDS Integers, Sequences, FiniteSets, TLC

VARIABLES
    text,       \* the text handed to analyzeEngagement
    room,       \* how many more fragments the caller may add to the text
    result,     \* the value the call returned, NoResult before the call
    ran,        \* the extractors the call invoked
    calls,      \* repeated calls on one text: type and returned value of each
    rec,        \* an analysis record handed to calculateEngagementScore
    scored,     \* the score returned for rec, -1 before the call
    earlier,    \* the score rec had before a strong call-to-action was added, or -1
    req,        \* the POST /api/extract request being handled, NoRequest when idle
    pc,         \* the position of the request handler
    stored,     \* whether the upload file of the request exists in uploads/
    extraction, \* the handler's extractionResult
    responses,  \* the responses sent for the request, in order
    invoked,    \* the services the handler called for the request
    unlinks,    \* how many times the handler deleted the upload file
    handled,    \* how many requests the server has taken
    isProcessing,        \* App state: an upload is being processed
    extractionResult,    \* App state: the result on display, Null when none
    processingProgress,  \* App state: the simulated progress, in tenths of a percent
    uploads,             \* the calls of handleFileUpload so far, in order of their start
    shownUpload          \* the call whose result extractionResult holds, 0 when none

engineVars == <<text, room, result, ran, calls, rec, scored, earlier>>

serverVars == <<req, pc, stored, extraction, responses, invoked, unlinks, handled>>

appVars == <<isProcessing, extractionResult, processingProgress, uploads, shownUpload>>

vars == <<engineVars, serverVars, appVars>>

\* The null of useState<ExtractionResult | null>(null).
Null == [null |-> TRUE]

\* The App component as mounted: nothing processing, nothing to show.
AppIdle ==
    /\ isProcessing = FALSE
    /\ extractionResult = Null
    /\ processingProgress = 0
    /\ uploads = <<>>
    /\ shownUpload = 0

----------------------------------------------------------------------------
(* Characters and strings                                                  *)

LowerLetters == "abcdefghijklmnopqrstuvwxyz"
UpperLetters == "ABCDEFGHIJKLMNOPQRSTUVWXYZ"
DigitChars == "0123456789"

CharAt(t, i) == SubSeq(t, i, i)

CharsOf(t) == {CharAt(t, i) : i \in 1..Len(t)}

\* \s of a JavaScript regular expression and the characters String.trim removes
\* (the ASCII ones).
Whitespace == {" ", "\n", "\t", "\r", "\f"}

IsSpace(c) == c \in Whitespace

\* \w : [A-Za-z0-9_]
WordChars ==
    CharsOf(LowerLetters) \cup CharsOf(UpperLetters) \cup CharsOf(DigitChars) \cup {"_"}

IsWordChar(c) == c \in WordChars

\* [.!?]
Terminators == {".", "!", "?"}

Min(S) == CHOOSE m \in S : \A n \in S : m <= n

\* The greatest element, as the least of the negated ones.
Max(S) == 0 - Min({0 - n : n \in S})

\* Math.round of the non-negative rational n/d (d > 0): halves round up.
RoundDiv(n, d) == (2 * n + d) \div (2 * d)

\* String.prototype.toLowerCase on one code unit.
LowerChar(c) ==
    IF c \in CharsOf(UpperLetters)
    THEN CharAt(LowerLetters, CHOOSE i \in 1..Len(UpperLetters) : CharAt(UpperLetters, i) = c)
    ELSE c

\* String.prototype.toLowerCase, code unit by code unit.
RECURSIVE toLowerCase(_)
toLowerCase(t) ==
    IF Len(t) = 0 THEN t
    ELSE IF Len(t) = 1 THEN LowerChar(t)
    ELSE LET h == Len(t) \div 2
         IN  toLowerCase(SubSeq(t, 1, h)) \o toLowerCase(SubSeq(t, h + 1, Len(t)))

\* String.prototype.includes
includes(t, w) ==
    \E i \in 1..(Len(t) - Len(w) + 1) : SubSeq(t, i, i + Len(w) - 1) = w

\* String.prototype.trim
trim(t) ==
    LET keep == {i \in 1..Len(t) : ~IsSpace(CharAt(t, i))}
    IN  IF keep = {} THEN "" ELSE SubSeq(t, Min(keep), Max(keep))

\* The places lo..hi where the Boolean function at holds, in ascending order.
RECURSIVE Places(_, _, _)
Places(at, lo, hi) ==
    IF lo > hi THEN <<>>
    ELSE IF lo = hi THEN (IF at[lo] THEN <<lo>> ELSE <<>>)
    ELSE LET mid == (lo + hi) \div 2
         IN  Places(at, lo, mid) \o Places(at, mid + 1, hi)

\* String.prototype.split on a regular expression matching one or more
\* characters of the set seps: the pieces between the maximal separator runs, in
\* order; a run at either end of the text leaves an empty piece there, and a
\* text without separator is one piece (the empty text too).
split(t, seps) ==
    LET runStart == [i \in 1..Len(t) |->
                        CharAt(t, i) \in seps /\ (i = 1 \/ CharAt(t, i - 1) \notin seps)]
        runEnd == [i \in 1..Len(t) |->
                        CharAt(t, i) \in seps /\ (i = Len(t) \/ CharAt(t, i + 1) \notin seps)]
        starts == Places(runStart, 1, Len(t))
        ends == Places(runEnd, 1, Len(t))
    IN  [k \in 1..(Len(starts) + 1) |->
            SubSeq(t,
                   IF k = 1 THEN 1 ELSE ends[k - 1] + 1,
                   IF k = Len(starts) + 1 THEN Len(t) ELSE starts[k] - 1)]

\* String.prototype.match with a global regular expression  X[\w]+  for a
\* one-character prefix X: the scan takes the leftmost match at or after the
\* place the last match ended, extends it over every following word
\* character, and goes on after it.  No match at all gives null, which the
\* callers replace by the empty list.
MatchEnd(t, s) ==
    Min({j \in (s + 1)..Len(t) : j = Len(t) \/ ~IsWordChar(CharAt(t, j + 1))})

RECURSIVE MatchFrom(_, _, _)
MatchFrom(t, prefix, from) ==
    LET at == {i \in from..(Len(t) - 1) :
                  CharAt(t, i) = prefix /\ IsWordChar(CharAt(t, i + 1))}
    IN  IF at = {} THEN <<>>
        ELSE LET s == Min(at)
                 e == MatchEnd(t, s)
             IN  <<SubSeq(t, s, e)>> \o MatchFrom(t, prefix, e + 1)

matchAll(t, prefix) == MatchFrom(t, prefix, 1)

\* [...new Set(list)]: the distinct entries, in the order first seen.
RECURSIVE Distinct(_)
Distinct(seq) ==
    IF seq = <<>> THEN <<>>
    ELSE LET init == Distinct(SubSeq(seq, 1, Len(seq) - 1))
             last == seq[Len(seq)]
         IN  IF \E i \in 1..Len(init) : init[i] = last THEN init ELSE Append(init, last)

\* A JavaScript number that is the quotient n/d of two non-negative integers
\* times 100: NaN for 0/0, Infinity for n/0, and else the rational 100n/d.
JsPercent(n, d) ==
    IF d = 0
    THEN IF n = 0 THEN [kind |-> "NaN"] ELSE [kind |-> "Infinity"]
    ELSE [kind |-> "finite", num |-> 100 * n, den |-> d]

----------------------------------------------------------------------------
(* The feature extractors                                                  *)

analyzeHashtags(t) ==
    LET hashtags == matchAll(t, "#")
    IN  [found |-> Len(hashtags),
         recommended |-> IF Len(hashtags) < 3 THEN 3 ELSE Len(hashtags),
         list |-> hashtags,
         density |-> JsPercent(Len(hashtags), Len(split(t, Whitespace)))]

analyzeMentions(t) ==
    LET mentions == matchAll(t, "@")
    IN  [found |-> Len(mentions),
         recommended |-> IF Len(mentions) < 2 THEN 2 ELSE Len(mentions),
         list |-> mentions]

\* The lexicon with only its one-word entries.
ctaWordsSingleWords ==
    <<"click", "buy", "shop", "download", "subscribe", "follow", "share",
      "like", "comment", "join", "discover", "explore", "try", "watch", "read",
      "visit">>

ctaWords ==
    <<"click", "buy", "shop", "download", "subscribe", "follow", "share",
      "like", "comment", "join", "sign up", "get started", "learn more",
      "discover", "explore", "try", "watch", "read", "visit", "check out">>

\* The lexicon looked up in the text as given, not lower-cased.
analyzeCallToActionCaseSensitive(t) ==
    LET foundCTAs == SelectSeq(ctaWords, LAMBDA cta : includes(t, cta))
    IN  [found |-> Len(foundCTAs) > 0,
         strength |-> IF Len(foundCTAs) >= 3 THEN "strong"
                      ELSE IF Len(foundCTAs) >= 2 THEN "medium"
                      ELSE IF Len(foundCTAs) >= 1 THEN "weak"
                      ELSE "none",
         words |-> foundCTAs,
         count |-> Len(foundCTAs)]

analyzeCallToAction(t) ==
    LET lowerText == toLowerCase(t)
        foundCTAs == SelectSeq(ctaWords, LAMBDA cta : includes(lowerText, cta))
    IN  [found |-> Len(foundCTAs) > 0,
         strength |-> IF Len(foundCTAs) >= 3 THEN "strong"
                      ELSE IF Len(foundCTAs) >= 2 THEN "medium"
                      ELSE IF Len(foundCTAs) >= 1 THEN "weak"
                      ELSE "none",
         words |-> foundCTAs,
         count |-> Len(foundCTAs)]

\* text.split(/\s+/).filter(word => word.length > 0).length
WordCount(t) == Len(SelectSeq(split(t, Whitespace), LAMBDA word : Len(word) > 0))

\* analyzeLength with the limits of the two platforms exchanged.
analyzeLengthLimitsSwapped(t) ==
    LET charCount == Len(t)
        wordCount == WordCount(t)
    IN  IF charCount > 500
        THEN [characters |-> charCount, words |-> wordCount, platform |-> "linkedin",
              optimal |-> "100-300",
              status |-> IF charCount > 280 THEN "good" ELSE "too_long"]
        ELSE [characters |-> charCount, words |-> wordCount, platform |-> "twitter",
              optimal |-> "140-280",
              status |-> IF charCount < 100 THEN "too_short" ELSE "good"]

\* analyzeLength with a text of exactly 100 characters still too short.
analyzeLengthShortAtHundred(t) ==
    LET charCount == Len(t)
        wordCount == WordCount(t)
    IN  IF charCount > 280
        THEN [characters |-> charCount, words |-> wordCount, platform |-> "linkedin",
              optimal |-> "100-300",
              status |-> IF charCount > 500 THEN "too_long" ELSE "good"]
        ELSE [characters |-> charCount, words |-> wordCount, platform |-> "twitter",
              optimal |-> "140-280",
              status |-> IF charCount <= 100 THEN "too_short" ELSE "good"]

analyzeLength(t) ==
    LET charCount == Len(t)
        wordCount == WordCount(t)
    IN  IF charCount > 280
        THEN [characters |-> charCount, words |-> wordCount, platform |-> "linkedin",
              optimal |-> "100-300",
              status |-> IF charCount > 500 THEN "too_long" ELSE "good"]
        ELSE [characters |-> charCount, words |-> wordCount, platform |-> "twitter",
              optimal |-> "140-280",
              status |-> IF charCount < 100 THEN "too_short" ELSE "good"]

\* analyzeReadability with a text of exactly ten words still too short.
analyzeReadabilityShortAtTen(t) ==
    LET sentences == Len(SelectSeq(split(t, Terminators), LAMBDA s : Len(trim(s)) > 0))
        words == WordCount(t)
        avgOver(k) == sentences > 0 /\ words > k * sentences
        afterLong == IF avgOver(20) THEN [score |-> 100 - 30, level |-> "difficult"]
                     ELSE IF avgOver(15) THEN [score |-> 100 - 15, level |-> "moderate"]
                     ELSE [score |-> 100, level |-> "excellent"]
        afterShort == IF words <= 10
                      THEN [score |-> afterLong.score - 20, level |-> "too_short"]
                      ELSE afterLong
        clamped == Max({0, Min({100, afterShort.score})})
    IN  [score |-> clamped,
         level |-> afterShort.level,
         avgWordsPerSentence |->
             [kind |-> "finite",
              num |-> IF sentences > 0 THEN RoundDiv(words * 10, sentences) ELSE 0,
              den |-> 10],
         sentences |-> sentences,
         complexity |-> IF avgOver(15) THEN "high"
                        ELSE IF avgOver(10) THEN "medium" ELSE "low"]

\* analyzeReadability with every text of fewer than 100 words too short.
analyzeReadabilityShortAtHundred(t) ==
    LET sentences == Len(SelectSeq(split(t, Terminators), LAMBDA s : Len(trim(s)) > 0))
        words == WordCount(t)
        avgOver(k) == sentences > 0 /\ words > k * sentences
        afterLong == IF avgOver(20) THEN [score |-> 100 - 30, level |-> "difficult"]
                     ELSE IF avgOver(15) THEN [score |-> 100 - 15, level |-> "moderate"]
                     ELSE [score |-> 100, level |-> "excellent"]
        afterShort == IF words < 100
                      THEN [score |-> afterLong.score - 20, level |-> "too_short"]
                      ELSE afterLong
        clamped == Max({0, Min({100, afterShort.score})})
    IN  [score |-> clamped,
         level |-> afterShort.level,
         avgWordsPerSentence |->
             [kind |-> "finite",
              num |-> IF sentences > 0 THEN RoundDiv(words * 10, sentences) ELSE 0,
              den |-> 10],
         sentences |-> sentences,
         complexity |-> IF avgOver(15) THEN "high"
                        ELSE IF avgOver(10) THEN "medium" ELSE "low"]

\* analyzeReadability with the sentence length taken in characters.
analyzeReadabilityByCharacters(t) ==
    LET sentences == Len(SelectSeq(split(t, Terminators), LAMBDA s : Len(trim(s)) > 0))
        words == WordCount(t)
        avgOver(k) == sentences > 0 /\ Len(t) > k * sentences
        afterLong == IF avgOver(20) THEN [score |-> 100 - 30, level |-> "difficult"]
                     ELSE IF avgOver(15) THEN [score |-> 100 - 15, level |-> "moderate"]
                     ELSE [score |-> 100, level |-> "excellent"]
        afterShort == IF words < 10
                      THEN [score |-> afterLong.score - 20, level |-> "too_short"]
                      ELSE afterLong
        clamped == Max({0, Min({100, afterShort.score})})
    IN  [score |-> clamped,
         level |-> afterShort.level,
         avgWordsPerSentence |->
             [kind |-> "finite",
              num |-> IF sentences > 0 THEN RoundDiv(words * 10, sentences) ELSE 0,
              den |-> 10],
         sentences |-> sentences,
         complexity |-> IF avgOver(15) THEN "high"
                        ELSE IF avgOver(10) THEN "medium" ELSE "low"]

\* avgWordsPerSentence is words/sentences (0 without sentences); it is kept
\* as the pair it is the quotient of, and compared by cross-multiplication.
analyzeReadability(t) ==
    LET sentences == Len(SelectSeq(split(t, Terminators), LAMBDA s : Len(trim(s)) > 0))
        words == WordCount(t)
        avgOver(k) == sentences > 0 /\ words > k * sentences
        afterLong == IF avgOver(20) THEN [score |-> 100 - 30, level |-> "difficult"]
                     ELSE IF avgOver(15) THEN [score |-> 100 - 15, level |-> "moderate"]
                     ELSE [score |-> 100, level |-> "excellent"]
        afterShort == IF words < 10
                      THEN [score |-> afterLong.score - 20, level |-> "too_short"]
                      ELSE afterLong
        clamped == Max({0, Min({100, afterShort.score})})
    IN  [score |-> clamped,
         level |-> afterShort.level,
         avgWordsPerSentence |->
             [kind |-> "finite",
              num |-> IF sentences > 0 THEN RoundDiv(words * 10, sentences) ELSE 0,
              den |-> 10],
         sentences |-> sentences,
         complexity |-> IF avgOver(15) THEN "high"
                        ELSE IF avgOver(10) THEN "medium" ELSE "low"]

positiveWords ==
    <<"great", "awesome", "amazing", "excellent", "fantastic", "love", "best",
      "perfect", "wonderful", "incredible", "outstanding", "brilliant">>

negativeWords ==
    <<"bad", "terrible", "awful", "hate", "worst", "horrible", "disappointing",
      "failed", "broken", "useless">>

engagementWords ==
    <<"new", "exciting", "innovative", "revolutionary", "breakthrough",
      "exclusive", "limited", "special", "unique", "trending">>

\* analyzeSentiment with equal counts taken for a positive tone.
analyzeSentimentTiesPositive(t) ==
    LET lowerText == toLowerCase(t)
        hits(list) == Len(SelectSeq(list, LAMBDA word : includes(lowerText, word)))
        positiveCount == hits(positiveWords)
        negativeCount == hits(negativeWords)
        engagementCount == hits(engagementWords)
    IN  [tone |-> IF positiveCount >= negativeCount THEN "positive"
                  ELSE IF negativeCount > positiveCount THEN "negative"
                  ELSE "neutral",
         engagement |-> IF engagementCount >= 3 THEN "high"
                        ELSE IF engagementCount >= 1 THEN "medium"
                        ELSE "low",
         positiveWords |-> positiveCount,
         negativeWords |-> negativeCount,
         engagementWords |-> engagementCount]

analyzeSentiment(t) ==
    LET lowerText == toLowerCase(t)
        hits(list) == Len(SelectSeq(list, LAMBDA word : includes(lowerText, word)))
        positiveCount == hits(positiveWords)
        negativeCount == hits(negativeWords)
        engagementCount == hits(engagementWords)
    IN  [tone |-> IF positiveCount > negativeCount THEN "positive"
                  ELSE IF negativeCount > positiveCount THEN "negative"
                  ELSE "neutral",
         engagement |-> IF engagementCount >= 3 THEN "high"
                        ELSE IF engagementCount >= 1 THEN "medium"
                        ELSE "low",
         positiveWords |-> positiveCount,
         negativeWords |-> negativeCount,
         engagementWords |-> engagementCount]

\* The matches of the emoji expression (flag u, so it walks code points):
\* a BMP emoji is one code unit, an astral one a surrogate pair.
RECURSIVE EmojisFrom(_, _)
EmojisFrom(t, from) ==
    LET at == {i \in from..Len(t) :
                  \/ CharAt(t, i) = "*"
                  \/ CharAt(t, i) = "{" /\ i < Len(t) /\ CharAt(t, i + 1) = "}"}
    IN  IF at = {} THEN <<>>
        ELSE LET s == Min(at)
                 e == IF CharAt(t, s) = "*" THEN s ELSE s + 1
             IN  <<SubSeq(t, s, e)>> \o EmojisFrom(t, e + 1)

analyzeEmojis(t) ==
    LET emojis == EmojisFrom(t, 1)
    IN  [found |-> Len(emojis),
         list |-> Distinct(emojis),
         density |-> JsPercent(Len(emojis), Len(split(t, Whitespace)))]

----------------------------------------------------------------------------
(* Suggestions, score, grade, optimized text                               *)

\* Icons and examples are emoji in the source; they are named here by their
\* code points.
AddHashtags ==
    [type |-> "hashtags", priority |-> "high", icon |-> "U+1F3F7 U+FE0F",
     title |-> "Add Hashtags for Discoverability",
     description |-> "Include 2-3 relevant hashtags to increase reach and engagement",
     example |-> "#innovation #tech #socialmedia"]

ReduceHashtags ==
    [type |-> "hashtags", priority |-> "medium", icon |-> "U+26A0 U+FE0F",
     title |-> "Reduce Hashtag Count",
     description |-> "Too many hashtags can appear spammy. Keep it to 3-5 relevant ones",
     example |-> "Focus on your top 3 most relevant hashtags"]

AddCTA ==
    [type |-> "cta", priority |-> "high", icon |-> "U+1F446",
     title |-> "Include a Clear Call-to-Action",
     description |-> "Add a specific action you want your audience to take",
     example |-> "\"What do you think? Share your thoughts in comments!\""]

StrengthenCTA ==
    [type |-> "cta", priority |-> "medium", icon |-> "U+1F4AA",
     title |-> "Strengthen Your Call-to-Action",
     description |-> "Make your call-to-action more compelling and specific",
     example |-> "Use stronger verbs like \"discover\", \"explore\", or \"join\""]

ShortenContent ==
    [type |-> "length", priority |-> "medium", icon |-> "U+2702 U+FE0F",
     title |-> "Shorten Your Content",
     description |-> "Consider breaking long content into multiple posts or key points",
     example |-> "Aim for 140-280 characters for better engagement"]

AddContext ==
    [type |-> "length", priority |-> "low", icon |-> "U+1F4DD",
     title |-> "Add More Context",
     description |-> "Provide more details or context to engage your audience better",
     example |-> "Add background information or personal insights"]

TagPeople ==
    [type |-> "mentions", priority |-> "medium", icon |-> "U+1F465",
     title |-> "Tag Relevant People or Brands",
     description |-> "Mention relevant accounts to increase visibility and engagement",
     example |-> "@company @influencer or industry leaders"]

AddEmojis ==
    [type |-> "emojis", priority |-> "low", icon |-> "U+1F60A",
     title |-> "Add Emojis for Visual Appeal",
     description |-> "Emojis can increase engagement and make content more approachable",
     example |-> "U+1F680 U+2728 U+1F4A1 for tech content"]

ImproveReadability ==
    [type |-> "readability", priority |-> "high", icon |-> "U+1F4DA",
     title |-> "Improve Readability",
     description |-> "Break long sentences into shorter, more digestible chunks",
     example |-> "Keep sentences under 15-20 words for better engagement"]

MoreEngaging ==
    [type |-> "engagement", priority |-> "medium", icon |-> "U+1F525",
     title |-> "Use More Engaging Language",
     description |-> "Add excitement and energy to capture attention",
     example |-> "Use words like \"amazing\", \"breakthrough\", \"exclusive\""]

\* suggestions.push(...) under a condition
PushIf(cond, suggestion) == IF cond THEN <<suggestion>> ELSE <<>>

\* The suggestions sorted by priority: high first, low last.
generateSuggestionsByPriority(analysis) ==
    LET pushed ==
            (IF analysis.hashtags.found = 0 THEN <<AddHashtags>>
             ELSE IF analysis.hashtags.found > 5 THEN <<ReduceHashtags>>
             ELSE <<>>)
            \o
            (IF ~analysis.callToAction.found THEN <<AddCTA>>
             ELSE IF analysis.callToAction.strength = "weak" THEN <<StrengthenCTA>>
             ELSE <<>>)
            \o
            (IF analysis.length.status = "too_long" THEN <<ShortenContent>>
             ELSE IF analysis.length.status = "too_short" THEN <<AddContext>>
             ELSE <<>>)
            \o PushIf(analysis.mentions.found = 0, TagPeople)
            \o PushIf(analysis.emojis.found = 0, AddEmojis)
            \o PushIf(analysis.readability.level = "difficult", ImproveReadability)
            \o PushIf(analysis.sentiment.engagement = "low", MoreEngaging)
        with(priority) == SelectSeq(pushed, LAMBDA s : s.priority = priority)
    IN  with("high") \o with("medium") \o with("low")

\* The rules with the hashtag limit reached at five hashtags already.
generateSuggestionsFromFive(analysis) ==
    (IF analysis.hashtags.found = 0 THEN <<AddHashtags>>
     ELSE IF analysis.hashtags.found >= 5 THEN <<ReduceHashtags>>
     ELSE <<>>)
    \o
    (IF ~analysis.callToAction.found THEN <<AddCTA>>
     ELSE IF analysis.callToAction.strength = "weak" THEN <<StrengthenCTA>>
     ELSE <<>>)
    \o
    (IF analysis.length.status = "too_long" THEN <<ShortenContent>>
     ELSE IF analysis.length.status = "too_short" THEN <<AddContext>>
     ELSE <<>>)
    \o PushIf(analysis.mentions.found = 0, TagPeople)
    \o PushIf(analysis.emojis.found = 0, AddEmojis)
    \o PushIf(analysis.readability.level = "difficult", ImproveReadability)
    \o PushIf(analysis.sentiment.engagement = "low", MoreEngaging)

\* The rules with the second call-to-action rule tested on its own, for
\* every strength below medium.
generateSuggestionsWeakOrNone(analysis) ==
    (IF analysis.hashtags.found = 0 THEN <<AddHashtags>>
     ELSE IF analysis.hashtags.found > 5 THEN <<ReduceHashtags>>
     ELSE <<>>)
    \o
    (IF ~analysis.callToAction.found THEN <<AddCTA>>
     ELSE <<>>)
    \o PushIf(analysis.callToAction.strength \in {"weak", "none"}, StrengthenCTA)
    \o
    (IF analysis.length.status = "too_long" THEN <<ShortenContent>>
     ELSE IF analysis.length.status = "too_short" THEN <<AddContext>>
     ELSE <<>>)
    \o PushIf(analysis.mentions.found = 0, TagPeople)
    \o PushIf(analysis.emojis.found = 0, AddEmojis)
    \o PushIf(analysis.readability.level = "difficult", ImproveReadability)
    \o PushIf(analysis.sentiment.engagement = "low", MoreEngaging)

generateSuggestions(analysis) ==
    (IF analysis.hashtags.found = 0 THEN <<AddHashtags>>
     ELSE IF analysis.hashtags.found > 5 THEN <<ReduceHashtags>>
     ELSE <<>>)
    \o
    (IF ~analysis.callToAction.found THEN <<AddCTA>>
     ELSE IF analysis.callToAction.strength = "weak" THEN <<StrengthenCTA>>
     ELSE <<>>)
    \o
    (IF analysis.length.status = "too_long" THEN <<ShortenContent>>
     ELSE IF analysis.length.status = "too_short" THEN <<AddContext>>
     ELSE <<>>)
    \o PushIf(analysis.mentions.found = 0, TagPeople)
    \o PushIf(analysis.emojis.found = 0, AddEmojis)
    \o PushIf(analysis.readability.level = "difficult", ImproveReadability)
    \o PushIf(analysis.sentiment.engagement = "low", MoreEngaging)

\* The call-to-action term with the signs of its ends swapped.
CtaTermSwapped(analysis) ==
    IF analysis.callToAction.strength = "strong" THEN -20
    ELSE IF analysis.callToAction.strength = "medium" THEN 15
    ELSE IF analysis.callToAction.strength = "weak" THEN 10
    ELSE 15

\* The call-to-action term of the score.
CtaTerm(analysis) ==
    IF analysis.callToAction.strength = "strong" THEN 20
    ELSE IF analysis.callToAction.strength = "medium" THEN 15
    ELSE IF analysis.callToAction.strength = "weak" THEN 10
    ELSE -15

\* The sum with the mention term not turning negative above three mentions.
RawScoreManyMentionsRewarded(analysis) ==
    50
    + (IF analysis.hashtags.found >= 2 /\ analysis.hashtags.found <= 5 THEN 15
       ELSE IF analysis.hashtags.found >= 1 THEN 10
       ELSE -10)
    + CtaTerm(analysis)
    + (IF analysis.length.status = "good" THEN 15
       ELSE IF analysis.length.status = "too_long" THEN -5
       ELSE IF analysis.length.status = "too_short" THEN -10
       ELSE 0)
    + RoundDiv(analysis.readability.score * 2, 10)
    + (IF analysis.sentiment.engagement = "high" THEN 15
       ELSE IF analysis.sentiment.engagement = "medium" THEN 10
       ELSE -5)
    + (IF analysis.mentions.found >= 1 THEN 10 ELSE 0)
    + (IF analysis.emojis.found >= 1 /\ analysis.emojis.found <= 3 THEN 5 ELSE 0)

\* The score before the final rounding and clamping.  Every term is an
\* integer: readability.score * 0.2 is score/5, rounded.
RawScore(analysis) ==
    50
    + (IF analysis.hashtags.found >= 2 /\ analysis.hashtags.found <= 5 THEN 15
       ELSE IF analysis.hashtags.found >= 1 THEN 10
       ELSE -10)
    + CtaTerm(analysis)
    + (IF analysis.length.status = "good" THEN 15
       ELSE IF analysis.length.status = "too_long" THEN -5
       ELSE IF analysis.length.status = "too_short" THEN -10
       ELSE 0)
    + RoundDiv(analysis.readability.score * 2, 10)
    + (IF analysis.sentiment.engagement = "high" THEN 15
       ELSE IF analysis.sentiment.engagement = "medium" THEN 10
       ELSE -5)
    + (IF analysis.mentions.found >= 1 /\ analysis.mentions.found <= 3 THEN 10
       ELSE IF analysis.mentions.found > 3 THEN -5
       ELSE 0)
    + (IF analysis.emojis.found >= 1 /\ analysis.emojis.found <= 3 THEN 5 ELSE 0)

\* The score without the final clamp.
ScoreUnclamped(analysis) == RawScore(analysis)

calculateEngagementScore(analysis) == Max({0, Min({100, RawScore(analysis)})})

getEngagementGrade(score) ==
    IF score >= 90 THEN "A+"
    ELSE IF score >= 80 THEN "A"
    ELSE IF score >= 70 THEN "B"
    ELSE IF score >= 60 THEN "C"
    ELSE IF score >= 50 THEN "D"
    ELSE "F"

\* "\n\n" + ['#content', '#engagement', '#socialmedia'].join(' ')
HashtagBlock == "\n\n#content #engagement #socialmedia"

\* A closing sentence that holds no entry of the call-to-action lexicon.
CtaBlockWithoutEntry == "\n\nWhat are your thoughts? Tell us below! {}"

\* The sentence ends with the emoji U+1F447, a surrogate pair.
CtaBlock == "\n\nWhat are your thoughts? Share in the comments! {}"

\* The optimizer that also gives a text reported too short the call-to-action
\* sentence.
generateOptimizedPaddingShort(t, analysis) ==
    trim(t)
    \o (IF analysis.hashtags.found = 0 THEN HashtagBlock ELSE "")
    \o (IF ~analysis.callToAction.found \/ analysis.length.status = "too_short"
        THEN CtaBlock ELSE "")

\* The optimizer starting from the text as given, not trimmed.
generateOptimizedUntrimmed(t, analysis) ==
    t
    \o (IF analysis.hashtags.found = 0 THEN HashtagBlock ELSE "")
    \o (IF ~analysis.callToAction.found THEN CtaBlock ELSE "")

generateOptimizedVersion(t, analysis) ==
    trim(t)
    \o (IF analysis.hashtags.found = 0 THEN HashtagBlock ELSE "")
    \o (IF ~analysis.callToAction.found THEN CtaBlock ELSE "")

----------------------------------------------------------------------------
(* The facade                                                              *)

\* A JavaScript string held where the other branch holds an object.
JsString(s) == [string |-> s]

\* The names of the extractors, as the keys of the analysis object.
Extractors ==
    {"hashtags", "mentions", "callToAction", "length", "readability", "sentiment", "emojis"}

\* The emptiness test without the trim.
IsBlankUntrimmed(t) == Len(t) = 0

\* !text || text.trim().length === 0
IsBlank(t) == Len(t) = 0 \/ Len(trim(t)) = 0

EmptyResult ==
    [score |-> 0,
     grade |-> "F",
     suggestions |-> <<JsString("No text content found to analyze")>>,
     analysis |->
        [hashtags |-> [found |-> 0, recommended |-> 3],
         mentions |-> [found |-> 0, recommended |-> 2],
         callToAction |-> [found |-> FALSE, strength |-> "none"],
         length |-> [current |-> 0, optimal |-> "140-280"],
         readability |-> [score |-> 0, level |-> "poor"],
         sentiment |-> [tone |-> "neutral", engagement |-> "low"]]]

\* The extractors a call invokes.
Invoked(t) == IF IsBlank(t) THEN {} ELSE Extractors

\* The analysis object: one record from each extractor.
Analysis(t) ==
    [hashtags |-> analyzeHashtags(t),
     mentions |-> analyzeMentions(t),
     callToAction |-> analyzeCallToAction(t),
     length |-> analyzeLength(t),
     readability |-> analyzeReadability(t),
     sentiment |-> analyzeSentiment(t),
     emojis |-> analyzeEmojis(t)]

\* The value returned for a text that is not blank.
Assemble(t, analysis) ==
    LET score == calculateEngagementScore(analysis)
    IN  [score |-> score,
         grade |-> getEngagementGrade(score),
         suggestions |-> generateSuggestions(analysis),
         analysis |-> analysis,
         optimizedContent |-> generateOptimizedVersion(t, analysis)]

\* The call with the content type echoed into the returned value.
analyzeEngagementEchoingType(t, type) ==
    IF IsBlank(t) THEN ("contentType" :> type) @@ EmptyResult
    ELSE ("contentType" :> type) @@ Assemble(t, Analysis(t))

\* type is only written to the console.
analyzeEngagement(t, type) ==
    IF IsBlank(t) THEN EmptyResult ELSE Assemble(t, Analysis(t))

----------------------------------------------------------------------------
(* Inputs                                                                  *)

MaxPieces == 3

MaxPaddedPieces == 1

MaxCalls == 2

MaxTags == 6

MaxMarks == 4

RECURSIVE Repeat(_, _)
Repeat(unit, k) ==
    IF k = 0 THEN ""
    ELSE LET half == Repeat(unit, k \div 2)
         IN  half \o half \o (IF k % 2 = 1 THEN unit ELSE "")

\* The first n characters of unit repeated.
Fill(unit, n) == SubSeq(Repeat(unit, n), 1, n)

Prose ==
    "We launched the new app today with @acme. It took us two years of work and we are proud of the team behind it."

\* A post at the hashtag limit, with one call-to-action entry.
Tagged == "Buy #a #b #c #d #e"

\* One long sentence of 21 short words, four of them mentions.
Crowd == "@a @b @c @d" \o Fill(" a", 34)

\* A post with two call-to-action entries.
Invite == "Follow us or revisit us."

\* The texts a caller starts from: nothing, a short post, a tagged post, and paddings whose
\* lengths sit at the length thresholds (100, 280, 500), of words and of blanks.
Seeds ==
    {"", Prose, Tagged, Invite, Crowd,
     Fill("lorem ", 99), Fill("lorem ", 280), Fill("lorem ", 500), Fill(" ", 501)}

\* The fragments a caller adds.
Pieces ==
    {" ", "#t", "#", "@m", "a", ".", "*", "{}", "Buy", "Click, share or join", "new"}

ContentTypes == {"pdf", "image", "unknown"}

\* The text of the scenario of the specification.
ScenarioText == "Check out our new product! #launch #tech @company great amazing"

\* The texts analysed repeatedly.
Samples ==
    {"", " \n ", "#t", " #tBuy ", "a#b_c @d.", Prose,
     ScenarioText,
     "Click, share or join the new exclusive, special #a #b @c * {}",
     Fill("lorem ", 501), Fill(" ", 501) \o "a"}

TagCounts == 0..MaxTags

MarkCounts == 0..MaxMarks

Strengths == {"none", "weak", "medium", "strong"}

Statuses == {"good", "too_long", "too_short"}

\* The readability scores analyzeReadability and the empty branch produce.
ReadabilityScores == {0, 50, 65, 70, 80, 85, 100}

Engagements == {"low", "medium", "high"}

\* The part of an analysis object calculateEngagementScore reads.
ScoreRecord(h, s, l, r, e, m, j) ==
    [hashtags |-> [found |-> h],
     callToAction |-> [found |-> s # "none", strength |-> s],
     length |-> [status |-> l],
     readability |-> [score |-> r],
     sentiment |-> [engagement |-> e],
     mentions |-> [found |-> m],
     emojis |-> [found |-> j]]

Records ==
    {ScoreRecord(h, s, l, r, e, m, j) :
        h \in TagCounts, s \in Strengths, l \in Statuses, r \in ReadabilityScores,
        e \in Engagements, m \in MarkCounts, j \in MarkCounts}

\* The texts handed to the optimizer: they differ in having a hashtag and a
\* call-to-action or not, and in the whitespace around them.
OptimizedTexts ==
    {"#t", " #tBuy ", "a#b_c @d.", ScenarioText, " Join us today\n", "\t#t ",
     " plain text\n\n", "x"}

\* Values of the five records other than hashtags and callToAction.
OtherRecords ==
    {[length |-> [status |-> l],
      readability |-> [score |-> r],
      sentiment |-> [engagement |-> e],
      mentions |-> [found |-> m],
      emojis |-> [found |-> j]] :
        l \in Statuses, r \in {70, 100}, e \in Engagements,
        m \in {0, MaxMarks}, j \in {0, MaxMarks}}

\* An analysis object with the hashtag and call-to-action records of the text
\* and the given other records.
WithOthers(t, others) ==
    [hashtags |-> analyzeHashtags(t), callToAction |-> analyzeCallToAction(t)] @@ others

NoResult == [pending |-> TRUE]

NoRecord == [pending |-> TRUE]

----------------------------------------------------------------------------
(* Text extraction: services/pdfService.js and the OCR service             *)

\* The concatenation of the strings out[lo], ..., out[hi].
RECURSIVE Concat(_, _, _)
Concat(out, lo, hi) ==
    IF lo > hi THEN ""
    ELSE IF lo = hi THEN out[lo]
    ELSE LET mid == (lo + hi) \div 2
         IN  Concat(out, lo, mid) \o Concat(out, mid + 1, hi)

\* String.prototype.replace with a global regular expression matching one or
\* more characters of the set seps: every maximal run becomes the string by.
replaceRuns(t, seps, by) ==
    LET parts == split(t, seps)
    IN  Concat([k \in 1..Len(parts) |-> IF k = 1 THEN parts[k] ELSE by \o parts[k]],
               1, Len(parts))

\* The first and the last place of the maximal whitespace run holding place i.
RunStart(t, i) == Max({j \in 1..i : j = 1 \/ ~IsSpace(CharAt(t, j - 1))})

RunEnd(t, i) == Min({j \in i..Len(t) : j = Len(t) \/ ~IsSpace(CharAt(t, j + 1))})

\* .replace(/\n\s*\n\s*\n/g, '\n\n'): a match starts at a line break whose
\* whitespace run holds two more line breaks and, the quantifiers being greedy,
\* ends at the last line break of the run; the scan goes on after it.
RECURSIVE replaceBlankLines(_)
replaceBlankLines(t) ==
    LET breaks(i) == {j \in i..RunEnd(t, i) : CharAt(t, j) = "\n"}
        at == {i \in 1..Len(t) : CharAt(t, i) = "\n" /\ Cardinality(breaks(i)) >= 3}
    IN  IF at = {} THEN t
        ELSE LET s == Min(at)
                 e == Max(breaks(s))
             IN  SubSeq(t, 1, s - 1) \o "\n\n" \o replaceBlankLines(SubSeq(t, e + 1, Len(t)))

\* .replace(/\n /g, '\n'): a space right after a line break goes.
replaceBreakSpace(t) ==
    Concat([i \in 1..Len(t) |->
               IF i > 1 /\ CharAt(t, i) = " " /\ CharAt(t, i - 1) = "\n"
               THEN "" ELSE CharAt(t, i)],
           1, Len(t))

\* .replace(/([a-z])\s+([A-Z])/g, '$1 $2'): a whitespace run between a small
\* and a capital letter becomes one space.
replaceWordGap(t) ==
    LET inGap(i) ==
            /\ IsSpace(CharAt(t, i))
            /\ RunStart(t, i) > 1
            /\ RunEnd(t, i) < Len(t)
            /\ CharAt(t, RunStart(t, i) - 1) \in CharsOf(LowerLetters)
            /\ CharAt(t, RunEnd(t, i) + 1) \in CharsOf(UpperLetters)
    IN  Concat([i \in 1..Len(t) |->
                   IF inGap(i) THEN (IF i = RunStart(t, i) THEN " " ELSE "")
                   ELSE CharAt(t, i)],
               1, Len(t))

\* The characters of the model outside \x20-\x7E, \n, \r, \t: the stand-ins
\* of the emoji code units, and the form feed.
NonPrintable == {"*", "{", "}", "\f"}

\* .replace(/[^\x20-\x7E\n\r\t]/g, '')
replaceNonPrintable(t) == replaceRuns(t, NonPrintable, "")

\* The statistics of the extracted text that the server logs.
TextStats(processedText) ==
    [characters |-> Len(processedText), words |-> WordCount(processedText)]

\* extractTextFromPDF without the trim that ends the clean-up.
extractTextFromPDFUntrimmed(data) ==
    LET processedText ==
            replaceBreakSpace(replaceRuns(replaceBlankLines(data.text), {" ", "\t"}, " "))
    IN  [success |-> TRUE, text |-> processedText, stats |-> TextStats(processedText)]

\* extractTextFromPDF once pdf-parse has resolved with data.
extractTextFromPDF(data) ==
    LET processedText ==
            trim(replaceBreakSpace(replaceRuns(replaceBlankLines(data.text), {" ", "\t"}, " ")))
    IN  [success |-> TRUE, text |-> processedText, stats |-> TextStats(processedText)]

\* extractTextFromPDF throws when pdf-parse does, and when data has no text
\* to call replace on.
PdfThrows(outcome) == outcome.throws \/ "text" \notin DOMAIN outcome.data

\* extractTextFromImage once Tesseract has resolved with data; data.text may
\* be missing.
extractTextFromImage(data) ==
    LET rawText == IF "text" \in DOMAIN data THEN data.text ELSE ""
        processedText ==
            trim(replaceNonPrintable(replaceRuns(replaceWordGap(replaceBlankLines(
                trim(rawText))), Whitespace, " ")))
    IN  [success |-> TRUE, text |-> processedText, stats |-> TextStats(processedText)]

----------------------------------------------------------------------------
(* The server: POST /api/extract                                           *)

MaxRequests == 2

allowedMimes == {"application/pdf", "image/jpeg", "image/jpg", "image/png"}

\* limits.fileSize, in bytes
fileSize == 10 * 1024 * 1024

\* String.prototype.startsWith
startsWith(s, prefix) == Len(s) >= Len(prefix) /\ SubSeq(s, 1, Len(prefix)) = prefix

\* The filter that lets every image type through.
fileFilterAnyImage(file) ==
    file.mimetype = "application/pdf" \/ startsWith(file.mimetype, "image/")

\* TRUE for cb(null, true), FALSE for cb(new Error(...), false).
fileFilter(file) == file.mimetype \in allowedMimes

\* upload.single('file'): what the multer middleware hands to the callback.
\* A part under another field name is an unexpected file; the filter is asked
\* before the file is written; a file over the limit is removed again.
uploadSingle(r) ==
    IF ~r.hasFile THEN [err |-> "none", file |-> FALSE]
    ELSE IF r.file.fieldname # "file" THEN [err |-> "LIMIT_UNEXPECTED_FILE", file |-> FALSE]
    ELSE IF ~fileFilter(r.file) THEN [err |-> "Error", file |-> FALSE]
    ELSE IF r.file.size > fileSize THEN [err |-> "LIMIT_FILE_SIZE", file |-> FALSE]
    ELSE [err |-> "none", file |-> TRUE]

FieldNames == {"file", "document"}

MimeTypes == allowedMimes \cup {"image/gif", "text/plain"}

FileSizes == {1, fileSize, fileSize + 1}

Requests ==
    {[hasFile |-> FALSE]}
    \cup {[hasFile |-> TRUE, file |-> [fieldname |-> f, mimetype |-> mt, size |-> sz]] :
             f \in FieldNames, mt \in MimeTypes, sz \in FileSizes}

\* The texts the parsers read out of a file.
RawTexts ==
    {"", " \n\t ", " Buy  #t \n \n\n now ", ScenarioText, "a \n B*", " {}\f "}

\* What awaiting a parser gives: it resolves with data, or it throws.
ParserOutcomes ==
    {[throws |-> TRUE], [throws |-> FALSE, data |-> [confidence |-> 0]]}
    \cup {[throws |-> FALSE, data |-> [text |-> raw]] : raw \in RawTexts}

NoRequest == [pending |-> TRUE]

\* let extractionResult = {}
NoExtraction == [r \in {} |-> r]

ServerIdle ==
    /\ req = NoRequest
    /\ pc = "idle"
    /\ stored = FALSE
    /\ extraction = NoExtraction
    /\ responses = <<>>
    /\ invoked = {}
    /\ unlinks = 0
    /\ handled = 0

\* res.status(status).json(body)
Respond(status, body) == <<[status |-> status, body |-> body]>>

\* The request arrives and the callback of upload.single runs up to the try
\* block: the upload errors and the missing file are answered with 400.
Receive(r) ==
    /\ pc \in {"idle", "done"}
    /\ handled < MaxRequests
    /\ handled' = handled + 1
    /\ req' = r
    /\ extraction' = NoExtraction
    /\ invoked' = {}
    /\ unlinks' = 0
    /\ LET up == uploadSingle(r)
           reject(error, message) ==
               /\ responses' = Respond(400, [error |-> error, message |-> message])
               /\ stored' = FALSE
               /\ pc' = "done"
       IN  IF up.err = "LIMIT_FILE_SIZE"
           THEN reject("File too large", "File size exceeds 10MB limit")
           ELSE IF up.err = "LIMIT_UNEXPECTED_FILE"
           THEN reject("Upload error", "Unexpected field")
           ELSE IF up.err # "none"
           THEN reject("File validation error", "Unsupported file type: " \o r.file.mimetype)
           ELSE IF ~up.file
           THEN reject("No file uploaded", "Please select a file to upload")
           ELSE /\ responses' = <<>>
                /\ stored' = TRUE
                /\ pc' = "extract"
    /\ UNCHANGED <<engineVars, appVars>>

\* The extractor chosen by the MIME type is awaited: it returns, or it throws
\* into the catch block.
Extract(outcome) ==
    /\ pc = "extract"
    /\ IF req.file.mimetype = "application/pdf"
       THEN /\ invoked' = invoked \cup {"pdf"}
            /\ IF PdfThrows(outcome)
               THEN /\ pc' = "catch"
                    /\ UNCHANGED extraction
               ELSE /\ pc' = "analyze"
                    /\ extraction' = [type |-> "pdf"] @@ extractTextFromPDF(outcome.data)
       ELSE IF startsWith(req.file.mimetype, "image/")
       THEN /\ invoked' = invoked \cup {"ocr"}
            /\ IF outcome.throws
               THEN /\ pc' = "catch"
                    /\ UNCHANGED extraction
               ELSE /\ pc' = "analyze"
                    /\ extraction' = [type |-> "image"] @@ extractTextFromImage(outcome.data)
       ELSE /\ pc' = "analyze"
            /\ UNCHANGED <<invoked, extraction>>
    /\ UNCHANGED <<req, stored, responses, unlinks, handled>>
    /\ UNCHANGED <<engineVars, appVars>>

\* The rest of the try block: the engagement analysis of a text that is not
\* empty, the removal of the upload, the response.
Complete ==
    /\ pc = "analyze"
    /\ LET analysed ==
               /\ "success" \in DOMAIN extraction
               /\ extraction.success
               /\ Len(extraction.text) > 0
           withEngagement ==
               IF analysed
               THEN [engagement |-> analyzeEngagement(extraction.text, extraction.type)]
                    @@ extraction
               ELSE extraction
       IN  /\ invoked' = (IF analysed THEN invoked \cup {"engagement"} ELSE invoked)
           /\ extraction' = withEngagement
           /\ responses' = responses \o Respond(200, [fileSize |-> req.file.size] @@ withEngagement)
    /\ stored' = FALSE
    /\ unlinks' = unlinks + 1
    /\ pc' = "done"
    /\ UNCHANGED <<req, handled>>
    /\ UNCHANGED <<engineVars, appVars>>

\* The catch block answering without the removal of the upload.
FailKeepingUpload ==
    /\ pc = "catch"
    /\ responses' = responses \o Respond(500,
           [success |-> FALSE,
            error |-> "Text extraction failed",
            type |-> IF startsWith(req.file.mimetype, "image/") THEN "image" ELSE "pdf"])
    /\ pc' = "done"
    /\ UNCHANGED <<req, stored, unlinks, extraction, invoked, handled>>
    /\ UNCHANGED <<engineVars, appVars>>

\* The catch block: the upload is removed if it is still there, the answer is 500.
Fail ==
    /\ pc = "catch"
    /\ stored' = FALSE
    /\ unlinks' = (IF stored THEN unlinks + 1 ELSE unlinks)
    /\ responses' = responses \o Respond(500,
           [success |-> FALSE,
            error |-> "Text extraction failed",
            type |-> IF startsWith(req.file.mimetype, "image/") THEN "image" ELSE "pdf"])
    /\ pc' = "done"
    /\ UNCHANGED <<req, extraction, invoked, handled>>
    /\ UNCHANGED <<engineVars, appVars>>

InitServer ==
    /\ text = ""
    /\ room = 0
    /\ result = NoResult
    /\ ran = {}
    /\ calls = <<>>
    /\ rec = NoRecord
    /\ scored = -1
    /\ earlier = -1
    /\ ServerIdle
    /\ AppIdle

NextServer ==
    \/ \E r \in Requests : Receive(r)
    \/ \E outcome \in ParserOutcomes : Extract(outcome)
    \/ Complete
    \/ Fail

SpecServer == InitServer /\ [][NextServer]_vars

----------------------------------------------------------------------------
(* One call of analyzeEngagement on a text the caller composed             *)

Init ==
    /\ text \in Seeds
    /\ room = (IF text = "" THEN MaxPieces ELSE MaxPaddedPieces)
    /\ result = NoResult
    /\ ran = {}
    /\ calls = <<>>
    /\ rec = NoRecord
    /\ scored = -1
    /\ earlier = -1
    /\ ServerIdle
    /\ AppIdle

\* The caller adds a fragment to the text before the call.
Type(piece) ==
    /\ result = NoResult
    /\ room > 0
    /\ text' = text \o piece
    /\ room' = room - 1
    /\ UNCHANGED <<result, ran, calls, rec, scored, earlier>>
    /\ UNCHANGED <<serverVars, appVars>>

\* The call.
Analyze(type) ==
    /\ result = NoResult
    /\ result' = analyzeEngagement(text, type)
    /\ ran' = Invoked(text)
    /\ UNCHANGED <<text, room, calls, rec, scored, earlier>>
    /\ UNCHANGED <<serverVars, appVars>>

Next ==
    \/ \E piece \in Pieces : Type(piece)
    \/ \E type \in ContentTypes : Analyze(type)

Spec == Init /\ [][Next]_vars

----------------------------------------------------------------------------
(* Repeated calls on one text                                              *)

InitRepeat ==
    /\ text \in Samples
    /\ room = 0
    /\ result = NoResult
    /\ ran = {}
    /\ calls = <<>>
    /\ rec = NoRecord
    /\ scored = -1
    /\ earlier = -1
    /\ ServerIdle
    /\ AppIdle

Call(type) ==
    /\ Len(calls) < MaxCalls
    /\ calls' = Append(calls, [type |-> type, returned |-> analyzeEngagement(text, type)])
    /\ UNCHANGED <<text, room, result, ran, rec, scored, earlier>>
    /\ UNCHANGED <<serverVars, appVars>>

NextRepeat == \E type \in ContentTypes : Call(type)

SpecRepeat == InitRepeat /\ [][NextRepeat]_vars

----------------------------------------------------------------------------
(* calculateEngagementScore on analysis records                            *)

InitScore ==
    /\ text = ""
    /\ room = 0
    /\ result = NoResult
    /\ ran = {}
    /\ calls = <<>>
    /\ rec \in Records
    /\ scored = -1
    /\ earlier = -1
    /\ ServerIdle
    /\ AppIdle

Score ==
    /\ scored = -1
    /\ scored' = calculateEngagementScore(rec)
    /\ UNCHANGED <<text, room, result, ran, calls, rec, earlier>>
    /\ UNCHANGED <<serverVars, appVars>>

\* The same record with a strong call-to-action in place of none.
AddStrongCta ==
    /\ scored # -1
    /\ earlier = -1
    /\ rec.callToAction.strength = "none"
    /\ rec' = [rec EXCEPT !.callToAction = [found |-> TRUE, strength |-> "strong"]]
    /\ earlier' = scored
    /\ scored' = -1
    /\ UNCHANGED <<text, room, result, ran, calls>>
    /\ UNCHANGED <<serverVars, appVars>>

NextScore == Score \/ AddStrongCta

SpecScore == InitScore /\ [][NextScore]_vars

----------------------------------------------------------------------------
(* generateOptimizedVersion on a text and analysis records                 *)

InitOptimize ==
    /\ text \in OptimizedTexts
    /\ room = 0
    /\ result = NoResult
    /\ ran = {}
    /\ calls = <<>>
    /\ rec \in {WithOthers(text, others) : others \in OtherRecords}
    /\ scored = -1
    /\ earlier = -1
    /\ ServerIdle
    /\ AppIdle

\* The optimizer is called on the text and the record.
Optimize ==
    /\ \A i \in 1..Len(calls) : calls[i].rec # rec
    /\ calls' = Append(calls, [rec |-> rec, returned |-> generateOptimizedVersion(text, rec)])
    /\ UNCHANGED <<text, room, result, ran, rec, scored, earlier>>
    /\ UNCHANGED <<serverVars, appVars>>

\* After the first call the five other records are replaced.
Revise(others) ==
    /\ Len(calls) = 1
    /\ calls[1].rec = rec
    /\ rec' = WithOthers(text, others)
    /\ UNCHANGED <<text, room, result, ran, calls, scored, earlier>>
    /\ UNCHANGED <<serverVars, appVars>>

NextOptimize == Optimize \/ \E others \in OtherRecords : Revise(others)

SpecOptimize == InitOptimize /\ [][NextOptimize]_vars

----------------------------------------------------------------------------
(* One call of analyzeEngagement on a text made of lexicon words           *)

\* Words of the three lexicons of analyzeSentiment, in small and in capital
\* letters, and a blank.
SentimentPieces ==
    {"great", "Amazing", "bad", "WORST", "new", "exclusive", "Trending", " "}

InitSentiment ==
    /\ text = ""
    /\ room = MaxPieces
    /\ result = NoResult
    /\ ran = {}
    /\ calls = <<>>
    /\ rec = NoRecord
    /\ scored = -1
    /\ earlier = -1
    /\ ServerIdle
    /\ AppIdle

NextSentiment ==
    \/ \E piece \in SentimentPieces : Type(piece)
    \/ \E type \in ContentTypes : Analyze(type)

SpecSentiment == InitSentiment /\ [][NextSentiment]_vars

----------------------------------------------------------------------------
(* analyzeEngagement called again on the optimized content it returned     *)

\* The fragments of the texts analysed twice.
AgainPieces == {" ", "\n", "#t", "Buy", "a", "."}

InitAgain ==
    /\ text = ""
    /\ room = MaxPieces
    /\ result = NoResult
    /\ ran = {}
    /\ calls = <<>>
    /\ rec = NoRecord
    /\ scored = -1
    /\ earlier = -1
    /\ ServerIdle
    /\ AppIdle

\* The first call, on the text.
First(type) ==
    /\ calls = <<>>
    /\ calls' = <<[type |-> type, returned |-> analyzeEngagement(text, type)]>>
    /\ room' = 0
    /\ UNCHANGED <<text, result, ran, rec, scored, earlier>>
    /\ UNCHANGED <<serverVars, appVars>>

\* The second call, on the optimizedContent of the first returned value; the
\* value of the empty branch has none, and undefined is no text: !text holds.
Again(type) ==
    /\ Len(calls) = 1
    /\ calls' = Append(calls,
           [type |-> type,
            returned |-> IF "optimizedContent" \in DOMAIN calls[1].returned
                         THEN analyzeEngagement(calls[1].returned.optimizedContent, type)
                         ELSE EmptyResult])
    /\ UNCHANGED <<text, room, result, ran, rec, scored, earlier>>
    /\ UNCHANGED <<serverVars, appVars>>

NextAgain ==
    \/ \E piece \in AgainPieces : Type(piece)
    \/ \E type \in ContentTypes : First(type)
    \/ \E type \in ContentTypes : Again(type)

SpecAgain == InitAgain /\ [][NextAgain]_vars

\* ---------------------------------------------------------------------------
\* The App component of the frontend: handleFileUpload in its two versions,
\* the one of App.tsx and the one with simulated progress. A call of
\* handleFileUpload is a record of uploads: its file, its position, what the
\* request came to, and whether its progressInterval is still set.
\* Each action is one run of the handler between two awaits, or one callback.

MaxUploads == 2

\* The files the dropzone accepts and hands to onFileUpload.
Files ==
    {[name |-> "a.pdf", type |-> "application/pdf", size |-> 1],
     [name |-> "b.png", type |-> "image/png", size |-> 2]}

\* file.type.startsWith('image/') ? 'image' : 'pdf'
TypeOf(file) == IF startsWith(file.type, "image/") THEN "image" ELSE "pdf"

\* What the request for a file can come to: fetch rejects (network), the body
\* is not JSON, or a JSON body arrives with response.ok true or false.
RepliesTo(file) ==
    {[network |-> TRUE, ok |-> FALSE, json |-> FALSE, body |-> Null],
     [network |-> FALSE, ok |-> TRUE, json |-> FALSE, body |-> Null],
     [network |-> FALSE, ok |-> FALSE, json |-> FALSE, body |-> Null],
     [network |-> FALSE, ok |-> TRUE, json |-> TRUE,
      body |-> [success |-> TRUE, text |-> "Buy now", type |-> TypeOf(file),
                originalFilename |-> file.name, fileSize |-> file.size]],
     [network |-> FALSE, ok |-> FALSE, json |-> TRUE,
      body |-> [error |-> "File too large", message |-> "File size exceeds 10MB limit"]],
     [network |-> FALSE, ok |-> FALSE, json |-> TRUE,
      body |-> [success |-> FALSE, error |-> "Text extraction failed",
                message |-> "Invalid PDF structure", type |-> TypeOf(file)]],
     [network |-> FALSE, ok |-> FALSE, json |-> TRUE,
      body |-> [error |-> "No file uploaded"]],
     [network |-> FALSE, ok |-> FALSE, json |-> TRUE,
      body |-> [success |-> FALSE]]}

\* result.message || result.error || 'Processing failed'
MessageOf(body) ==
    IF "message" \in DOMAIN body /\ Len(body.message) > 0 THEN body.message
    ELSE IF "error" \in DOMAIN body /\ Len(body.error) > 0 THEN body.error
    ELSE "Processing failed"

\* The object handleFileUpload stores for a failed upload.
FailedResult(file, message) ==
    [success |-> FALSE,
     message |-> message,
     type |-> TypeOf(file),
     originalFilename |-> file.name,
     fileSize |-> file.size]

\* What the call stores in extractionResult once its request has come to reply.
OutcomeOf(file, reply) ==
    IF reply.network \/ ~reply.json
    THEN FailedResult(file, "Network error: Could not connect to server")
    ELSE IF reply.ok THEN reply.body
    ELSE FailedResult(file, MessageOf(reply.body))

\* The call at position i of uploads, with some of its fields replaced.
At(i, pcNow, replyNow, intervalNow) ==
    [uploads EXCEPT ![i] = [file |-> uploads[i].file, pc |-> pcNow,
                            reply |-> replyNow, interval |-> intervalNow]]

\* The network: the request of call i comes to a reply.
Settle(i, reply) ==
    /\ i \in 1..Len(uploads)
    /\ uploads[i].pc = "fetch"
    /\ reply \in RepliesTo(uploads[i].file)
    /\ uploads' = At(i, "fetched", reply, uploads[i].interval)
    /\ UNCHANGED <<isProcessing, extractionResult, processingProgress, shownUpload>>
    /\ UNCHANGED <<engineVars, serverVars>>

\* handleClearResults, the button of ResultsDisplay.
handleClearResults ==
    /\ extractionResult # Null
    /\ extractionResult' = Null
    /\ shownUpload' = 0
    /\ UNCHANGED <<isProcessing, processingProgress, uploads>>
    /\ UNCHANGED <<engineVars, serverVars>>

\* App.tsx: handleFileUpload up to await fetch. The dropzone is disabled while
\* isUploading.
handleFileUpload(file) ==
    /\ ~isProcessing
    /\ Len(uploads) < MaxUploads
    /\ isProcessing' = TRUE
    /\ extractionResult' = Null
    /\ shownUpload' = 0
    /\ uploads' = Append(uploads, [file |-> file, pc |-> "fetch",
                                   reply |-> Null, interval |-> FALSE])
    /\ UNCHANGED processingProgress
    /\ UNCHANGED <<engineVars, serverVars>>

\* App.tsx: catch and finally.
CatchFinally(i) ==
    /\ extractionResult' =
           FailedResult(uploads[i].file, "Network error: Could not connect to server")
    /\ shownUpload' = i
    /\ isProcessing' = FALSE
    /\ uploads' = At(i, "ended", uploads[i].reply, FALSE)
    /\ UNCHANGED processingProgress

\* The handler resumed after a rejected fetch without catch and finally.
afterFetchUncaught(i) ==
    /\ i \in 1..Len(uploads)
    /\ uploads[i].pc = "fetched"
    /\ IF uploads[i].reply.network
       THEN /\ uploads' = At(i, "ended", uploads[i].reply, FALSE)
            /\ UNCHANGED <<isProcessing, extractionResult, processingProgress, shownUpload>>
       ELSE /\ uploads' = At(i, "parsing", uploads[i].reply, FALSE)
            /\ UNCHANGED <<isProcessing, extractionResult, processingProgress, shownUpload>>
    /\ UNCHANGED <<engineVars, serverVars>>

\* App.tsx: the handler resumed after await fetch: a rejection goes to catch,
\* a response to await response.json().
afterFetch(i) ==
    /\ i \in 1..Len(uploads)
    /\ uploads[i].pc = "fetched"
    /\ IF uploads[i].reply.network
       THEN CatchFinally(i)
       ELSE /\ uploads' = At(i, "parsing", uploads[i].reply, FALSE)
            /\ UNCHANGED <<isProcessing, extractionResult, processingProgress, shownUpload>>
    /\ UNCHANGED <<engineVars, serverVars>>

\* App.tsx: the handler resumed after await response.json(): the result is
\* stored, then finally resets isProcessing.
afterJson(i) ==
    /\ i \in 1..Len(uploads)
    /\ uploads[i].pc = "parsing"
    /\ IF ~uploads[i].reply.json
       THEN CatchFinally(i)
       ELSE /\ extractionResult' = OutcomeOf(uploads[i].file, uploads[i].reply)
            /\ shownUpload' = i
            /\ isProcessing' = FALSE
            /\ uploads' = At(i, "ended", uploads[i].reply, FALSE)
            /\ UNCHANGED processingProgress
    /\ UNCHANGED <<engineVars, serverVars>>

InitApp ==
    /\ text = ""
    /\ room = 0
    /\ result = NoResult
    /\ ran = {}
    /\ calls = <<>>
    /\ rec = NoRecord
    /\ scored = -1
    /\ earlier = -1
    /\ ServerIdle
    /\ AppIdle

NextApp ==
    \/ \E file \in Files : handleFileUpload(file)
    \/ \E i \in 1..Len(uploads) : \E reply \in RepliesTo(uploads[i].file) : Settle(i, reply)
    \/ \E i \in 1..Len(uploads) : afterFetch(i)
    \/ \E i \in 1..Len(uploads) : afterJson(i)
    \/ handleClearResults

\* The event loop runs a handler whose awaited promise has settled; nothing
\* is assumed of the network or of the user.
SpecApp ==
    /\ InitApp
    /\ [][NextApp]_vars
    /\ \A i \in 1..MaxUploads : WF_vars(afterFetch(i)) /\ WF_vars(afterJson(i))

\* The version with simulated progress. processingProgress is kept in tenths
\* of a percent; Math.random() * 15 is one of these amounts.
Amounts == {0, 75, 149}

\* Math.round(progress), the N of 'N% complete'.
Percent == (processingProgress + 5) \div 10

\* handleFileUpload up to await fetch, simulateProgress included. FileUpload is
\* rendered only while extractionResult is null, its dropzone is disabled
\* while isUploading.
handleFileUploadWithProgress(file) ==
    /\ ~isProcessing
    /\ extractionResult = Null
    /\ Len(uploads) < MaxUploads
    /\ isProcessing' = TRUE
    /\ extractionResult' = Null
    /\ shownUpload' = 0
    /\ processingProgress' = 0
    /\ uploads' = Append(uploads, [file |-> file, pc |-> "fetch",
                                   reply |-> Null, interval |-> TRUE])
    /\ UNCHANGED <<engineVars, serverVars>>

\* The callback of the progressInterval of call i, every 200 ms.
simulateProgress(i, amount) ==
    /\ i \in 1..Len(uploads)
    /\ uploads[i].interval
    /\ IF processingProgress >= 950
       THEN /\ processingProgress' = 950
            /\ uploads' = At(i, uploads[i].pc, uploads[i].reply, FALSE)
       ELSE /\ processingProgress' = processingProgress + amount
            /\ UNCHANGED uploads
    /\ UNCHANGED <<isProcessing, extractionResult, shownUpload>>
    /\ UNCHANGED <<engineVars, serverVars>>

\* catch and finally of the version with progress.
CatchFinallyWithProgress(i) ==
    /\ extractionResult' =
           FailedResult(uploads[i].file, "Network error: Could not connect to server")
    /\ shownUpload' = i
    /\ isProcessing' = FALSE
    /\ processingProgress' = 0
    /\ uploads' = At(i, "ended", uploads[i].reply, FALSE)

\* The handler resumed after await fetch.
afterFetchWithProgress(i) ==
    /\ i \in 1..Len(uploads)
    /\ uploads[i].pc = "fetched"
    /\ IF uploads[i].reply.network
       THEN CatchFinallyWithProgress(i)
       ELSE /\ uploads' = At(i, "parsing", uploads[i].reply, uploads[i].interval)
            /\ UNCHANGED <<isProcessing, extractionResult, processingProgress, shownUpload>>
    /\ UNCHANGED <<engineVars, serverVars>>

\* The handler resumed after await response.json(): on response.ok the result
\* is left to a timer of 500 ms and the progress set to 100; finally clears
\* the interval, resets isProcessing and sets the progress to 0.
afterJsonWithProgress(i) ==
    /\ i \in 1..Len(uploads)
    /\ uploads[i].pc = "parsing"
    /\ IF ~uploads[i].reply.json
       THEN CatchFinallyWithProgress(i)
       ELSE IF uploads[i].reply.ok
       THEN /\ uploads' = At(i, "timer", uploads[i].reply, FALSE)
            /\ isProcessing' = FALSE
            /\ processingProgress' = 0
            /\ UNCHANGED <<extractionResult, shownUpload>>
       ELSE /\ extractionResult' = OutcomeOf(uploads[i].file, uploads[i].reply)
            /\ shownUpload' = i
            /\ isProcessing' = FALSE
            /\ processingProgress' = 0
            /\ uploads' = At(i, "ended", uploads[i].reply, FALSE)
    /\ UNCHANGED <<engineVars, serverVars>>

\* The callback of the 500 ms timer of call i.
resultTimer(i) ==
    /\ i \in 1..Len(uploads)
    /\ uploads[i].pc = "timer"
    /\ extractionResult' = uploads[i].reply.body
    /\ shownUpload' = i
    /\ uploads' = At(i, "ended", uploads[i].reply, FALSE)
    /\ UNCHANGED <<isProcessing, processingProgress>>
    /\ UNCHANGED <<engineVars, serverVars>>

InitProgress ==
    /\ text = ""
    /\ room = 0
    /\ result = NoResult
    /\ ran = {}
    /\ calls = <<>>
    /\ rec = NoRecord
    /\ scored = -1
    /\ earlier = -1
    /\ ServerIdle
    /\ AppIdle

NextProgress ==
    \/ \E file \in Files : handleFileUploadWithProgress(file)
    \/ \E i \in 1..Len(uploads) : \E reply \in RepliesTo(uploads[i].file) : Settle(i, reply)
    \/ \E i \in 1..Len(uploads) : \E amount \in Amounts : simulateProgress(i, amount)
    \/ \E i \in 1..Len(uploads) : afterFetchWithProgress(i)
    \/ \E i \in 1..Len(uploads) : afterJsonWithProgress(i)
    \/ \E i \in 1..Len(uploads) : resultTimer(i)
    \/ handleClearResults

SpecProgress == InitProgress /\ [][NextProgress]_vars

----------------------------------------------------------------------------
(* Properties                                                              *)

Returned == result # NoResult

\* Empty, or whitespace only.
OnlyWhitespace(t) == \A i \in 1..Len(t) : IsSpace(CharAt(t, i))

\* C1: for every text, empty and whitespace-only included, the returned score
\* is an integer in 0..100 and the grade is the one the thresholds give it:
\* A+ from 90, A for 80..89, B for 70..79, C for 60..69, D for 50..59, F below 50.
C1_ScoreInRangeAndGraded ==
    Returned =>
        /\ result.score \in 0..100
        /\ (result.score >= 90) = (result.grade = "A+")
        /\ (result.score \in 80..89) = (result.grade = "A")
        /\ (result.score \in 70..79) = (result.grade = "B")
        /\ (result.score \in 60..69) = (result.grade = "C")
        /\ (result.score \in 50..59) = (result.grade = "D")
        /\ (result.score < 50) = (result.grade = "F")

\* A text whose terms add up to more than 100, returned with score 100 and grade A+.
C1_Witness ==
    /\ Returned
    /\ ~OnlyWhitespace(text)
    /\ RawScore(result.analysis) > 100
    /\ result.score = 100
    /\ result.grade = "A+"

\* C2: for an empty or whitespace-only text the call invokes no extractor and
\* returns score 0, grade F and the one suggestion "No text content found to
\* analyze".
C2_BlankTextGetsCannedResult ==
    (Returned /\ OnlyWhitespace(text)) =>
        /\ ran = {}
        /\ result.score = 0
        /\ result.grade = "F"
        /\ result.suggestions = <<JsString("No text content found to analyze")>>

\* A call on a text of one or more whitespace characters has returned.
C2_Witness == Returned /\ OnlyWhitespace(text) /\ Len(text) > 0

\* The places where a token starts: the prefix character followed by a word
\* character.  The prefix is no word character, so tokens never overlap.
TokenStarts(t, prefix) ==
    {i \in 1..(Len(t) - 1) : CharAt(t, i) = prefix /\ IsWordChar(CharAt(t, i + 1))}

\* C3: for every text, hashtags.found is the number of '#word' tokens and
\* mentions.found the number of '@word' tokens of the text, and each record
\* has a list of exactly found entries.
C3_FoundAndListCountTokens ==
    Returned =>
        LET h == result.analysis.hashtags
            m == result.analysis.mentions
        IN  /\ h.found = Cardinality(TokenStarts(text, "#"))
            /\ m.found = Cardinality(TokenStarts(text, "@"))
            /\ "list" \in DOMAIN h /\ Len(h.list) = h.found
            /\ "list" \in DOMAIN m /\ Len(m.list) = m.found

C5_StrongCtaNeverLowersScore ==
    (earlier # -1 /\ scored # -1) => scored >= earlier

\* Both records are scored, and the strong call-to-action raised the score.
C5_Witness ==
    /\ earlier # -1
    /\ rec.callToAction.strength = "strong"
    /\ scored > earlier

\* o is t without its leading and trailing whitespace.
IsTrimOf(o, t) ==
    /\ Len(o) > 0
    /\ ~IsSpace(CharAt(o, 1))
    /\ ~IsSpace(CharAt(o, Len(o)))
    /\ \E k \in 0..(Len(t) - Len(o)) :
          /\ OnlyWhitespace(SubSeq(t, 1, k))
          /\ SubSeq(t, k + 1, k + Len(o)) = o
          /\ OnlyWhitespace(SubSeq(t, k + Len(o) + 1, Len(t)))

\* C6: for a non-empty text with at least one hashtag and a call-to-action,
\* optimizedContent is the text without its leading and trailing whitespace,
\* and nothing more.
C6_CompleteTextOnlyTrimmed ==
    (/\ Returned
     /\ Len(text) > 0
     /\ result.analysis.hashtags.found > 0
     /\ result.analysis.callToAction.found)
    => IsTrimOf(result.optimizedContent, text)

\* Such a text that starts with whitespace.
C6_Witness ==
    /\ Returned
    /\ Len(text) > 0
    /\ IsSpace(CharAt(text, 1))
    /\ result.analysis.hashtags.found > 0
    /\ result.analysis.callToAction.found

\* No call-to-action lexicon entry occurs in the text, in any case of letters.
NoCtaEntry(t) == \A k \in 1..Len(ctaWords) : ~includes(toLowerCase(t), ctaWords[k])

HasSuggestion(type, priority) ==
    \E i \in 1..Len(result.suggestions) :
        LET s == result.suggestions[i]
        IN  "type" \in DOMAIN s /\ s.type = type /\ s.priority = priority

\* The text is reported too long, with the hashtag and the call-to-action
\* suggestion, both of high priority.
TooLongAndBothSuggested ==
    /\ "status" \in DOMAIN result.analysis.length
    /\ result.analysis.length.status = "too_long"
    /\ HasSuggestion("hashtags", "high")
    /\ HasSuggestion("cta", "high")

\* C7 as stated: every text of more than 500 characters without '#word' token
\* and without call-to-action entry is reported too long, with the hashtag and
\* the call-to-action suggestion, both of high priority.
C7_EveryLongBareText ==
    (/\ Returned
     /\ Len(text) > 500
     /\ TokenStarts(text, "#") = {}
     /\ NoCtaEntry(text))
    => TooLongAndBothSuggested

\* C7 as amended: the same for the texts that hold a non-whitespace character.
C7_LongBareTextNotBlank ==
    (/\ Returned
     /\ Len(text) > 500
     /\ ~OnlyWhitespace(text)
     /\ TokenStarts(text, "#") = {}
     /\ NoCtaEntry(text))
    => TooLongAndBothSuggested

\* A text of more than 500 characters, not blank, without token and entry.
C7_Witness ==
    /\ Returned
    /\ Len(text) > 500
    /\ ~OnlyWhitespace(text)
    /\ TokenStarts(text, "#") = {}
    /\ NoCtaEntry(text)

\* C8: the analysis object of every returned value, the one for an empty or
\* whitespace-only text included, has one record for each of the seven features.
C8_SevenFeatureRecords ==
    Returned =>
        DOMAIN result.analysis =
            {"hashtags", "mentions", "callToAction", "length", "readability",
             "sentiment", "emojis"}

\* C9: every element of suggestions is a record with the fields type,
\* priority, icon, title, description and example, and its priority is high,
\* medium or low.
C9_SuggestionsAreRecords ==
    Returned =>
        \A i \in 1..Len(result.suggestions) :
            LET s == result.suggestions[i]
            IN  /\ DOMAIN s = {"type", "priority", "icon", "title", "description", "example"}
                /\ s.priority \in {"high", "medium", "low"}

\* C10: every call returns, and the density of the hashtag and of the emoji
\* record is a defined finite number, 0 when found is 0.
C10_DensitiesDefined ==
    Returned =>
        \A f \in {"hashtags", "emojis"} :
            /\ f \in DOMAIN result.analysis
            /\ "density" \in DOMAIN result.analysis[f]
            /\ result.analysis[f].density.kind = "finite"
            /\ result.analysis[f].density.den # 0
            /\ (result.analysis[f].found = 0 => result.analysis[f].density.num = 0)

\* C11: for the text "Check out our new product! #launch #tech @company great
\* amazing" every call returns hashtags.found = 2, mentions.found = 1,
\* callToAction.found true and sentiment.tone positive.
C11_ScenarioFeatures ==
    text = ScenarioText =>
        \A i \in 1..Len(calls) :
            LET a == calls[i].returned.analysis
            IN  /\ a.hashtags.found = 2
                /\ a.mentions.found = 1
                /\ a.callToAction.found = TRUE
                /\ a.sentiment.tone = "positive"

\* The scenario text has been analysed.
C11_Witness == text = ScenarioText /\ Len(calls) >= 1

\* The request carries a file over the size limit or of a MIME type that is
\* not allowed.
BadUpload ==
    /\ req # NoRequest
    /\ req.hasFile
    /\ (req.file.size > fileSize \/
        req.file.mimetype \notin {"application/pdf", "image/jpeg", "image/jpg", "image/png"})

\* C12: an upload of more than 10 MB or of a MIME type other than
\* application/pdf, image/jpeg, image/jpg and image/png reaches neither the PDF
\* extraction nor the OCR nor the engagement analysis and is answered with
\* 400; a request without file is answered with 400 too.
C12_BadUploadRejected ==
    /\ BadUpload => (invoked = {} /\ pc = "done" /\ ~stored)
    /\ ((pc = "done" /\ (BadUpload \/ ~req.hasFile)) =>
            (Len(responses) = 1 /\ responses[1].status = 400))

\* An image of a type that is not allowed, and of a size within the limit, has
\* been answered.
C12_Witness ==
    /\ pc = "done"
    /\ BadUpload
    /\ req.file.fieldname = "file"
    /\ req.file.mimetype = "image/gif"
    /\ req.file.size <= fileSize
    /\ responses[1].status = 400

\* The seven terms, each from its own feature record.
TermH(a) == IF a.hashtags.found \in 2..5 THEN 15 ELSE IF a.hashtags.found >= 1 THEN 10 ELSE -10

TermC(a) ==
    CASE a.callToAction.strength = "strong" -> 20
      [] a.callToAction.strength = "medium" -> 15
      [] a.callToAction.strength = "weak" -> 10
      [] a.callToAction.strength = "none" -> -15

TermL(a) ==
    CASE a.length.status = "good" -> 15
      [] a.length.status = "too_long" -> -5
      [] a.length.status = "too_short" -> -10

\* round(readability.score * 0.2)
TermR(a) == (a.readability.score + 2) \div 5

TermE(a) ==
    CASE a.sentiment.engagement = "high" -> 15
      [] a.sentiment.engagement = "medium" -> 10
      [] a.sentiment.engagement = "low" -> -5

TermM(a) == IF a.mentions.found \in 1..3 THEN 10 ELSE IF a.mentions.found > 3 THEN -5 ELSE 0

TermJ(a) == IF a.emojis.found \in 1..3 THEN 5 ELSE 0

Terms(a) == <<TermH(a), TermC(a), TermL(a), TermR(a), TermE(a), TermM(a), TermJ(a)>>

\* The base with the terms added in the order of the places in order.
RECURSIVE SumInOrder(_, _)
SumInOrder(terms, order) ==
    IF order = <<>> THEN 50
    ELSE SumInOrder(terms, SubSeq(order, 1, Len(order) - 1)) + terms[order[Len(order)]]

\* The orders in which seven terms can be added: the rotations of the
\* source's order and of its reverse.
TermOrders ==
    {[k \in 1..7 |-> ((k + shift - 1) % 7) + 1] : shift \in 0..6}
    \cup {[k \in 1..7 |-> 7 - ((k + shift - 1) % 7)] : shift \in 0..6}

Clamp(n) == IF n < 0 THEN 0 ELSE IF n > 100 THEN 100 ELSE n

\* C13: the score of an analysis record is the sum 50 + H + C + L + R + E + M + J
\* of the base and the seven terms, clamped to 0..100, in whatever order the
\* terms are added.
C13_ScoreIsClampedSum ==
    scored # -1 =>
        \A order \in TermOrders : scored = Clamp(SumInOrder(Terms(rec), order))

\* A record with more than five hashtags and more than three mentions has been
\* scored strictly between the clamps.
C13_Witness ==
    /\ scored \in 1..99
    /\ rec.hashtags.found > 5
    /\ rec.mentions.found > 3
    /\ rec.readability.score = 85

\* The place of a suggestion type in the order the rules are evaluated in.
TypeRank(type) ==
    CASE type = "hashtags" -> 1
      [] type = "cta" -> 2
      [] type = "length" -> 3
      [] type = "mentions" -> 4
      [] type = "emojis" -> 5
      [] type = "readability" -> 6
      [] type = "engagement" -> 7

\* C14: the suggestions of a non-empty text are in the order of the rules,
\* hashtags, cta, length, mentions, emojis, readability, engagement: of any two
\* suggestions the earlier has the earlier type, so no type occurs twice and
\* the list has at most seven entries.
C14_SuggestionsInRuleOrder ==
    (Returned /\ Len(text) > 0) =>
        /\ Len(result.suggestions) <= 7
        /\ \A i, j \in 1..Len(result.suggestions) :
               i < j => /\ "type" \in DOMAIN result.suggestions[i]
                        /\ "type" \in DOMAIN result.suggestions[j]
                        /\ TypeRank(result.suggestions[i].type)
                               < TypeRank(result.suggestions[j].type)

\* Seven suggestions, with one of low priority before one of high priority.
C14_Witness ==
    /\ Returned
    /\ Len(result.suggestions) = 7
    /\ \E i, j \in 1..7 :
           /\ i < j
           /\ result.suggestions[i].priority = "low"
           /\ result.suggestions[j].priority = "high"

\* The suggestions with the given title.
Titled(title) ==
    SelectSeq(result.suggestions, LAMBDA s : "title" \in DOMAIN s /\ s.title = title)

\* The rule with the given title fired exactly when its trigger holds, once,
\* and with the given priority.
Fired(title, priority, trigger) ==
    IF trigger
    THEN Len(Titled(title)) = 1 /\ Titled(title)[1].priority = priority
    ELSE Len(Titled(title)) = 0

\* Every rule fired exactly when its trigger holds, with its priority.
EveryRuleOnTrigger ==
    LET a == result.analysis
    IN  /\ Fired("Add Hashtags for Discoverability", "high", a.hashtags.found = 0)
        /\ Fired("Reduce Hashtag Count", "medium", a.hashtags.found > 5)
        /\ Fired("Include a Clear Call-to-Action", "high", a.callToAction.found = FALSE)
        /\ Fired("Strengthen Your Call-to-Action", "medium", a.callToAction.strength = "weak")
        /\ Fired("Tag Relevant People or Brands", "medium", a.mentions.found = 0)
        /\ Fired("Use More Engaging Language", "medium", a.sentiment.engagement = "low")
        /\ Fired("Improve Readability", "high", a.readability.level = "difficult")
        /\ Fired("Shorten Your Content", "medium", a.length.status = "too_long")
        /\ Fired("Add More Context", "low", a.length.status = "too_short")
        /\ Fired("Add Emojis for Visual Appeal", "low", a.emojis.found = 0)

\* C15 as stated: for every non-empty text each of the ten suggestion rules
\* fired exactly when its trigger holds, with the stated priority.
C15_EveryNonEmptyText == (Returned /\ Len(text) > 0) => EveryRuleOnTrigger

\* C15 as amended: the same for the texts that hold a non-whitespace character.
C15_RulesFireOnTrigger == (Returned /\ ~OnlyWhitespace(text)) => EveryRuleOnTrigger

\* A text with more than five hashtags and a weak call-to-action: both second
\* rules fired.
C15_Witness ==
    /\ Returned
    /\ ~OnlyWhitespace(text)
    /\ result.analysis.hashtags.found > 5
    /\ result.analysis.callToAction.strength = "weak"
    /\ Len(Titled("Reduce Hashtag Count")) = 1
    /\ Len(Titled("Strengthen Your Call-to-Action")) = 1

\* C16: no analysis suggests both to add and to reduce hashtags, both to
\* shorten the content and to add context, or both to add and to strengthen
\* the call-to-action.
C16_PairsExclusive ==
    Returned =>
        /\ Len(Titled("Add Hashtags for Discoverability")) + Len(Titled("Reduce Hashtag Count")) <= 1
        /\ Len(Titled("Shorten Your Content")) + Len(Titled("Add More Context")) <= 1
        /\ Len(Titled("Include a Clear Call-to-Action"))
              + Len(Titled("Strengthen Your Call-to-Action")) <= 1

\* One suggestion of each pair is there: fewer hashtags, more context, a
\* stronger call-to-action.
C16_Witness ==
    /\ Returned
    /\ Len(Titled("Reduce Hashtag Count")) = 1
    /\ Len(Titled("Add More Context")) = 1
    /\ Len(Titled("Strengthen Your Call-to-Action")) = 1

\* o is the text t without the whitespace around it, then block if first
\* holds, then the other block if second holds.
IsTrimThenBlocks(o, t, first, firstBlock, second, secondBlock) ==
    LET tail == (IF first THEN firstBlock ELSE "") \o (IF second THEN secondBlock ELSE "")
    IN  /\ Len(o) > Len(tail)
        /\ SubSeq(o, Len(o) - Len(tail) + 1, Len(o)) = tail
        /\ IsTrimOf(SubSeq(o, 1, Len(o) - Len(tail)), t)

\* C17: the optimizer returns the text without the whitespace around it,
\* then a blank line and '#content #engagement #socialmedia' exactly when
\* hashtags.found is 0, then a blank line and the fixed call-to-action sentence
\* exactly when callToAction.found is false; the output is the same whatever
\* the length, readability, sentiment, mentions and emojis records are.
C17_OptimizedIsTrimPlusBlocks ==
    /\ \A i \in 1..Len(calls) :
          IsTrimThenBlocks(calls[i].returned, text,
                           calls[i].rec.hashtags.found = 0,
                           "\n\n#content #engagement #socialmedia",
                           calls[i].rec.callToAction.found = FALSE,
                           "\n\nWhat are your thoughts? Share in the comments! {}")
    /\ \A i, j \in 1..Len(calls) : calls[i].returned = calls[j].returned

\* A text with whitespace in front, without hashtag and call-to-action, has
\* been optimized twice, the second time as a text reported too short.
C17_Witness ==
    /\ Len(calls) = 2
    /\ IsSpace(CharAt(text, 1))
    /\ calls[1].rec.hashtags.found = 0
    /\ ~calls[1].rec.callToAction.found
    /\ calls[1].rec.length.status # "too_short"
    /\ calls[2].rec.length.status = "too_short"

\* C18: analyzeReadability starts from score 100 and level excellent; with
\* avg = words/sentences (0 without sentences) it takes 30 off and says
\* difficult if avg > 20, else takes 15 off and says moderate if avg > 15; on
\* its own, fewer than 10 words take 20 more off and say too_short, whatever
\* the level was; the score is then clamped to 0..100.
C18_ReadabilityRules ==
    "readability" \in ran =>
        LET w == result.analysis.length.words
            s == result.analysis.readability.sentences
            long == s > 0 /\ w > 20 * s
            longish == ~long /\ s > 0 /\ w > 15 * s
            short == w < 10
            penalty == (IF long THEN 30 ELSE IF longish THEN 15 ELSE 0)
                       + (IF short THEN 20 ELSE 0)
        IN  /\ result.analysis.readability.score = Clamp(100 - penalty)
            /\ result.analysis.readability.level =
                   (IF short THEN "too_short"
                    ELSE IF long THEN "difficult"
                    ELSE IF longish THEN "moderate"
                    ELSE "excellent")

\* A text of one sentence of 16 to 20 words is moderate with score 85.
C18_Witness ==
    /\ "readability" \in ran
    /\ result.analysis.readability.sentences = 1
    /\ result.analysis.length.words \in 16..20
    /\ result.analysis.readability.level = "moderate"
    /\ result.analysis.readability.score = 85

\* C19: with c the number of characters, analyzeLength reports linkedin and
\* "100-300" if c > 280, with status too_long if c > 500 and good otherwise,
\* and twitter and "140-280" if c <= 280, with status too_short if c < 100 and
\* good otherwise; so the status is good exactly for 100 <= c <= 500.
C19_LengthClasses ==
    "length" \in ran =>
        LET c == Len(text)
            l == result.analysis.length
        IN  /\ l.characters = c
            /\ (c > 280) => (l.platform = "linkedin" /\ l.optimal = "100-300")
            /\ (c <= 280) => (l.platform = "twitter" /\ l.optimal = "140-280")
            /\ (l.status = "too_long") = (c > 500)
            /\ (l.status = "too_short") = (c < 100)
            /\ (l.status = "good") = (c \in 100..500)

\* A text of exactly 100 characters is good for twitter.
C19_Witness ==
    /\ "length" \in ran
    /\ Len(text) = 100
    /\ result.analysis.length.status = "good"
    /\ result.analysis.length.platform = "twitter"

\* The lexicon entry occurs in t at place i, letters compared without case.
OccursAt(t, entry, i) ==
    /\ i + Len(entry) - 1 <= Len(t)
    /\ \A k \in 1..Len(entry) : LowerChar(CharAt(t, i + k - 1)) = CharAt(entry, k)

\* C20: analyzeCallToAction counts the lexicon entries that occur somewhere in
\* the lower-cased text, each once, inside words too; found says the count is
\* above 0; strength is strong from 3, medium for 2, weak for 1, none for 0.
C20_CtaCountsEntries ==
    "callToAction" \in ran =>
        LET cta == result.analysis.callToAction
            entries == {k \in 1..Len(ctaWords) :
                           \E i \in 1..Len(text) : OccursAt(text, ctaWords[k], i)}
        IN  /\ cta.count = Cardinality(entries)
            /\ cta.found = (cta.count > 0)
            /\ cta.strength = (IF cta.count >= 3 THEN "strong"
                               ELSE IF cta.count = 2 THEN "medium"
                               ELSE IF cta.count = 1 THEN "weak"
                               ELSE "none")
            /\ (cta.found = FALSE) = (cta.strength = "none")

\* A text with two entries, one written with a capital letter, one inside a
\* longer word.
C20_Witness ==
    /\ "callToAction" \in ran
    /\ result.analysis.callToAction.count = 2
    /\ result.analysis.callToAction.strength = "medium"
    /\ \E k \in 1..Len(ctaWords), i \in 1..Len(text) :
           OccursAt(text, ctaWords[k], i) /\ CharAt(text, i) \in CharsOf(UpperLetters)
    /\ \E k \in 1..Len(ctaWords), i \in 2..Len(text) :
           OccursAt(text, ctaWords[k], i) /\ IsWordChar(CharAt(text, i - 1))

\* The number of entries of the lexicon that occur in t, letters compared
\* without case.
Hits(t, lexicon) ==
    Cardinality({k \in 1..Len(lexicon) : \E i \in 1..Len(t) : OccursAt(t, lexicon[k], i)})

\* C21: analyzeSentiment says positive if more positive than negative lexicon
\* entries occur in the text, negative if more negative than positive ones,
\* neutral if as many; it says high if three or more engagement entries occur,
\* medium for one or two, low for none.
C21_ToneAndEngagementByCounts ==
    "sentiment" \in ran =>
        LET p == Hits(text, positiveWords)
            n == Hits(text, negativeWords)
            e == Hits(text, engagementWords)
            s == result.analysis.sentiment
        IN  /\ s.tone = (IF p > n THEN "positive" ELSE IF n > p THEN "negative" ELSE "neutral")
            /\ s.engagement = (IF e >= 3 THEN "high" ELSE IF e \in 1..2 THEN "medium" ELSE "low")

\* A text with one positive and one negative entry is neutral.
C21_Witness ==
    /\ "sentiment" \in ran
    /\ Hits(text, positiveWords) = 1
    /\ Hits(text, negativeWords) = 1
    /\ result.analysis.sentiment.tone = "neutral"
    /\ result.analysis.sentiment.engagement = "medium"

\* The density is the quotient of found and words, times 100.
IsPercentOf(density, found, words) ==
    /\ density.kind = "finite"
    /\ words > 0
    /\ density.num * words = 100 * found * density.den

\* C22: for every text that is not blank, with whitespace in front or behind
\* too, the density of the hashtag record is hashtags.found divided by
\* length.words, the number of non-empty tokens between whitespace, times 100,
\* and the density of the emoji record is emojis.found divided by the same.
C22_DensityOverWordCount ==
    (Returned /\ ~OnlyWhitespace(text)) =>
        LET a == result.analysis
        IN  /\ IsPercentOf(a.hashtags.density, a.hashtags.found, a.length.words)
            /\ IsPercentOf(a.emojis.density, a.emojis.found, a.length.words)

\* C23: for every text with a non-whitespace character the sum that
\* calculateEngagementScore clamps is 19 or more, so the returned score is the
\* sum or 100 and never 0; the score 0 is returned for blank texts only.
C23_SumAtLeastNineteen ==
    Returned =>
        /\ (~OnlyWhitespace(text)) =>
               /\ RawScore(result.analysis) >= 19
               /\ result.score >= 19
        /\ (result.score = 0) => OnlyWhitespace(text)

\* A text whose sum is exactly 19: no hashtag, no call-to-action, too short,
\* one sentence of more than 20 words, no engagement word, more than 3 mentions.
C23_Witness ==
    /\ Returned
    /\ ~OnlyWhitespace(text)
    /\ RawScore(result.analysis) = 19
    /\ result.score = 19
    /\ result.analysis.readability.score = 70
    /\ result.analysis.mentions.found > 3

\* C24: no text gets both the long-sentence and the short-content penalty:
\* fewer than 10 words mean at most 15 words per sentence, the number of
\* sentences being 1 or more, or the average 0; so the readability score is
\* 100, 85, 80 or 70, and no text of level too_short is difficult or moderate.
C24_PenaltiesExclusive ==
    "readability" \in ran =>
        LET r == result.analysis.readability
            w == result.analysis.length.words
        IN  /\ r.score \in {100, 85, 80, 70}
            /\ (w < 10) =>
                  /\ (r.sentences = 0 \/ w <= 15 * r.sentences)
                  /\ r.avgWordsPerSentence.num <= 15 * r.avgWordsPerSentence.den
                  /\ r.level = "too_short"
                  /\ r.score = 80
            /\ (r.level = "too_short") => (w < 10)
            /\ (r.sentences = 0) => (r.avgWordsPerSentence.num = 0)

\* A text of a few words and no sentence: only terminators and whitespace.
C24_Witness ==
    /\ "readability" \in ran
    /\ result.analysis.readability.sentences = 0
    /\ result.analysis.length.words > 1
    /\ result.analysis.readability.level = "too_short"
    /\ result.analysis.readability.score = 80

\* The second call found a hashtag and a call-to-action and returned the
\* optimized content of the first.
SecondCallFixed ==
    /\ calls[2].returned.analysis.hashtags.found > 0
    /\ calls[2].returned.analysis.callToAction.found = TRUE
    /\ "optimizedContent" \in DOMAIN calls[1].returned
    /\ "optimizedContent" \in DOMAIN calls[2].returned
    /\ calls[2].returned.optimizedContent = calls[1].returned.optimizedContent

\* C25 as stated: for every non-empty text the analysis of the optimized
\* content finds a hashtag and a call-to-action, and its optimized content is
\* the one analysed.
C25_EveryNonEmptyText == (Len(calls) = 2 /\ Len(text) > 0) => SecondCallFixed

\* C25 as amended: the same for the texts that hold a non-whitespace character.
C25_OptimizedIsFixedPoint == (Len(calls) = 2 /\ ~OnlyWhitespace(text)) => SecondCallFixed

\* A text without hashtag and call-to-action, with whitespace at its ends, has
\* been analysed twice.
C25_Witness ==
    /\ Len(calls) = 2
    /\ ~OnlyWhitespace(text)
    /\ IsSpace(CharAt(text, 1))
    /\ IsSpace(CharAt(text, Len(text)))
    /\ calls[1].returned.analysis.hashtags.found = 0
    /\ ~calls[1].returned.analysis.callToAction.found

\* The file of the request was accepted and stored.
Accepted ==
    /\ req # NoRequest
    /\ req.hasFile
    /\ req.file.fieldname = "file"
    /\ req.file.mimetype \in {"application/pdf", "image/jpeg", "image/jpg", "image/png"}
    /\ req.file.size <= fileSize

\* C26: a request whose file was accepted and stored gets one response, 200
\* when extraction and analysis went through and 500 when a step threw; when
\* it is sent, the upload has been deleted, once, and is no longer there.
C26_UploadGoneWhenAnswered ==
    Accepted =>
        /\ Len(responses) <= 1
        /\ unlinks <= 1
        /\ (pc = "done") => (Len(responses) = 1)
        /\ (Len(responses) = 1) =>
               /\ ~stored
               /\ unlinks = 1
               /\ responses[1].status \in {200, 500}
               /\ (responses[1].status = 200) = ("success" \in DOMAIN extraction)

\* An extractor threw, and the request has been answered with 500.
C26_Witness ==
    /\ Accepted
    /\ pc = "done"
    /\ responses[1].status = 500
    /\ unlinks = 1
    /\ ~stored

\* C27: the 200 response has an engagement field exactly when the extraction
\* reported success and its text is not the empty string; the extractors trim,
\* so the text handed to analyzeEngagement is never empty or whitespace only
\* and the value returned is never the one of the empty-text branch.
C27_EngagementIffText ==
    (Accepted /\ Len(responses) = 1 /\ responses[1].status = 200) =>
        LET body == responses[1].body
            analysed == "engagement" \in DOMAIN body
        IN  /\ analysed = (body.success /\ Len(body.text) > 0)
            /\ analysed = ("engagement" \in invoked)
            /\ analysed =>
                   /\ ~OnlyWhitespace(body.text)
                   /\ body.engagement # EmptyResult
                   /\ "optimizedContent" \in DOMAIN body.engagement

\* A PDF whose text had whitespace around it has been analysed.
C27_Witness ==
    /\ Accepted
    /\ Len(responses) = 1
    /\ responses[1].status = 200
    /\ responses[1].body.type = "pdf"
    /\ responses[1].body.text = "{}"
    /\ "engagement" \in DOMAIN responses[1].body

\* C28: in the App with simulated progress extractionResult stays null while
\* isProcessing is true, and a result on display belongs to the upload
\* started last: the result a timer stores 500 ms after the response is never
\* shown during or after the start of a later upload.
C28_ResultOfLatestUpload ==
    /\ isProcessing => extractionResult = Null
    /\ (extractionResult # Null) => shownUpload = Len(uploads)

\* C29: the simulated progress shown as 'N% complete' is within 0..100.
C29_ProgressWithinHundred ==
    /\ processingProgress >= 0
    /\ Percent \in 0..100

\* Call i of handleFileUpload is running: its start has happened, its end not.
Running(i) ==
    /\ i \in 1..Len(uploads)
    /\ uploads[i].pc \in {"fetch", "fetched", "parsing"}

\* Call i has just ended as its outcome requires: isProcessing is false and
\* extractionResult holds the server's result, the server's message, or the
\* network error.
EndedWell(i) ==
    /\ i \in 1..Len(uploads)
    /\ uploads[i].pc = "ended"
    /\ ~isProcessing
    /\ extractionResult # Null
    /\ LET reply == uploads[i].reply
       IN  IF reply.network \/ ~reply.json
           THEN /\ extractionResult.success = FALSE
                /\ extractionResult.message = "Network error: Could not connect to server"
           ELSE IF reply.ok
           THEN extractionResult = reply.body
           ELSE /\ extractionResult.success = FALSE
                /\ ("message" \in DOMAIN reply.body) =>
                       extractionResult.message = reply.body.message

\* C30: in the App of App.tsx isProcessing is true and extractionResult null
\* while a call of handleFileUpload is running, the call that ended last has
\* left isProcessing false and, until it is cleared, its own outcome on
\* display; and every call whose request has come to one of the three outcomes
\* (a response with ok, a response with an error status, a network or JSON
\* failure) eventually ends with isProcessing false and that outcome stored.
C30_EveryUploadEnds ==
    /\ [](\A i \in 1..MaxUploads :
             /\ Running(i) => (isProcessing /\ extractionResult = Null)
             /\ (i = Len(uploads) /\ uploads[i].pc = "ended") =>
                    /\ ~isProcessing
                    /\ (extractionResult # Null) => EndedWell(i))
    /\ \A i \in 1..MaxUploads :
           (i <= Len(uploads) /\ uploads[i].pc = "fetched") ~> EndedWell(i)

\* A call whose response was not JSON has ended with the network error.
C30_Witness ==
    /\ EndedWell(Len(uploads))
    /\ ~uploads[Len(uploads)].reply.network
    /\ ~uploads[Len(uploads)].reply.json

====
